---------------------------- MODULE Spec2Model ----------------------------
(***************************************************************************)
(* Model of cmd/tool/cmd/sendtx.go: the transaction load generator of the  *)
(* go-seele tool.  Worker goroutines (loopSendMode1_2, loopSendMode3) send *)
(* transactions from balance entries; in mode 1 a checker goroutine        *)
(* (loopCheckMode1) per StartSend call polls the submitted transactions    *)
(* and, after a cool-down, appends the confirmed entries to its            *)
(* balanceList.                                                            *)
(*                                                                         *)
(* A *balance is modelled by its index in the sequence `entries`; the      *)
(* index also stands for the entry's address (MustGenerateShardKeyPair     *)
(* returns a fresh key pair on every call).  A Go slice is a value (a      *)
(* header over a backing array): the parameter balanceList of              *)
(* loopSendMode1_2 and the parameter balanceList of loopCheckMode1 are two *)
(* variables, balanceList[w] and checkBalanceList[w].                      *)
(*                                                                         *)
(* Time is counted in seconds and advances by one ticker period at a time; *)
(* both tickers of a checker fire at every advance and the checker handles *)
(* each tick before the next one fires.  The limiter's elapsed time is in  *)
(* milliseconds and is an input.                                           *)
(*                                                                         *)
(* The sections between lock.Lock() and lock.Unlock() hold memory          *)
(* operations only and are part of one step each.                          *)
(*                                                                         *)
(* initAccount, which runs before the workers start, has a specification   *)
(* of its own, SpecBoot: its goroutines (initBalance) go through their     *)
(* slices of the key list one key at a time.                               *)
(***************************************************************************)
EXTENDS Integers, Sequences, FiniteSets, TLC

\* ------------------------------------------------------------------ bounds
MaxSendsMode1 == 2    \* calls of send() in one run of mode 1
MaxSendsMode2 == 6    \* calls of send() in one run of mode 2
MaxSendsMode3 == 4    \* calls of send() in one run of mode 3
MaxTicks      == 6    \* ticker periods in one run
MaxKeys       == 3    \* lines of the key file

\* ------------------------------------------------------------------ inputs
Bootstrap    == {1, 2, 3}     \* the entries initAccount returns
StartAmounts == {1, 2}        \* the balance the accounts start with
ThreadCounts == {1, 2}        \* values of the flag --threads
Modes        == {1, 2, 3}     \* values of the flag --mode
TpsValues    == {2}           \* values of the flag --tps
Elapses      == {400, 1000}   \* milliseconds since tpsStartTime at the limiter

NumAccounts == Cardinality(Bootstrap)

\* the lines of a key file: an empty line, the key of an account in a shard
\* without a client, and keys of accounts with balance 0, 1 and 2 in a
\* shard that has one
Keys == {[hex |-> "",  client |-> FALSE, balance |-> 0],
         [hex |-> "k", client |-> FALSE, balance |-> 1],
         [hex |-> "k", client |-> TRUE,  balance |-> 0],
         [hex |-> "k", client |-> TRUE,  balance |-> 1],
         [hex |-> "k", client |-> TRUE,  balance |-> 2]}
InitThreadCounts == {1, 2, 3}  \* values of --threads when initAccount runs
Tasks == 0..2                  \* the i of initAccount's loop over the threads

\* ------------------------------------------------------- program constants
TxChCap      == 100000   \* capacity of txCh
TickerPeriod == 30       \* seconds, checkPack and confirm tickers
confirmTime  == 120      \* seconds, 2 * time.Minute
SplitMode3   == 3        \* partitions of loopSendMode3
Second       == 1000     \* milliseconds, time.Second

Threads == {1, 2}             \* goroutine numbers, up to the largest thread count

Nil  == 0                     \* a nil *balance
NoTx == [from |-> 0, nonce |-> 0, amount |-> 0]

VARIABLES
    mode, threads, tps,      \* flags
    ledger,                  \* stub ledger: what SendTx / GetTransactionByHash may answer
    entries,                 \* every *balance allocated so far
    initial,                 \* the entries as initAccount returned them
    pc,                      \* position of each worker goroutine
    balanceList,             \* loopSendMode1_2: balanceList
    copyBalances,            \* loopSendMode1_2: copyBalances
    idx,                     \* index of the range loop (1-based)
    newBalance,              \* loopSendMode1_2: newBalance waiting for txCh
    count,                   \* loopSendMode1_2: count
    tpsCount,                \* package variable tpsCount (mode 3)
    reg,                     \* value of tpsCount read by tpsCount++
    balances, nextBalances,  \* loopSendMode3: balances, nextBalances
    part,                    \* loopSendMode3: which SendMode3 call (0..2)
    txCh,                    \* package variable txCh
    checkBalanceList,        \* loopCheckMode1: balanceList
    toPackedBalanceList,     \* loopCheckMode1: toPackedBalanceList
    toConfirmBalanceList,    \* loopCheckMode1: toConfirmBalanceList
    checkPackC, confirmC,    \* a tick is waiting in checkPack.C / confirm.C
    now,                     \* time.Now(), seconds since start
    elapse,                  \* the limiter's elapse, while a worker is in the limiter
    sleepFor,                \* the argument of the limiter's time.Sleep (0: no sleep)
    lock,                    \* StartSend: who holds the lock of each thread
    txResult,                \* last answer of getTx for each entry, and when it was "block"
    keyList,                 \* initAccount: keyList
    initList,                \* initAccount: balanceList
    started,                 \* initAccount: i, the initBalance goroutines started
    taskAt,                  \* initBalance: i of each goroutine
    done,                    \* the initBalance goroutines that have returned
    wg,                      \* initAccount: the counter of wg
    initResult,              \* initAccount: result
    initPc                   \* initAccount: "loop", "wait", "returned"

vars == <<mode, threads, tps, ledger, entries, initial, pc, balanceList,
          copyBalances, idx, newBalance, count, tpsCount, reg, balances,
          nextBalances, part, txCh, checkBalanceList, toPackedBalanceList,
          toConfirmBalanceList, checkPackC, confirmC, now, txResult,
          elapse, sleepFor, lock,
          keyList, initList, started, taskAt, done, wg, initResult, initPc>>

\* the variables of initAccount, and the others
bootVars == <<keyList, initList, started, taskAt, done, wg, initResult, initPc>>

runVars == <<mode, tps, ledger, entries, initial, pc, balanceList,
             copyBalances, idx, newBalance, count, tpsCount, reg, balances,
             nextBalances, part, txCh, checkBalanceList, toPackedBalanceList,
             toConfirmBalanceList, checkPackC, confirmC, now, txResult,
             elapse, sleepFor, lock>>

\* ---------------------------------------------------------------- helpers
Range(s) == {s[i] : i \in 1..Len(s)}

RECURSIVE SumSeq(_, _)
SumSeq(f, s) == IF s = <<>> THEN 0 ELSE f[Head(s)].amount + SumSeq(f, Tail(s))

\* balanceList[start:end] with Go's 0-based half-open bounds
Slice(s, start, end) == SubSeq(s, start + 1, end)

\* A variant of the split that the properties below must tell from it:
\* every part starts at the head of the list.
newBalancesList_fromHead(list, splitNum, i) ==
    LET unit == Len(list) \div splitNum
        end  == IF i = splitNum - 1 THEN Len(list) ELSE unit * (i + 1)
    IN  Slice(list, 0, end)

\* newBalancesList(balanceList, splitNum, true)[i], i in 0..splitNum-1
newBalancesList(list, splitNum, i) ==
    LET unit  == Len(list) \div splitNum
        start == unit * i
        end   == IF i = splitNum - 1 THEN Len(list) ELSE unit * (i + 1)
    IN  Slice(list, start, end)

\* newBalancesList(balanceList, splitNum, false)[i]: end-start nil pointers
nilBalancesList(list, splitNum, i) ==
    [k \in 1..Len(newBalancesList(list, splitNum, i)) |-> Nil]

Active == 1..threads
NoResult == [status |-> "none", at |-> 0]

\* the calls of send() in one run
SendCap ==
    IF mode = 1 THEN MaxSendsMode1
    ELSE IF mode = 2 THEN MaxSendsMode2
    ELSE MaxSendsMode3

\* The entries allocated by send() are numbered per calling goroutine: the
\* k-th beneficiary that worker w creates is NumAccounts + (w-1)*SendCap + k.
EntryIds == 1..(NumAccounts + Cardinality(Threads) * SendCap)
CreatedBy(w) ==
    {e \in DOMAIN entries :
        /\ e > NumAccounts + (w - 1) * SendCap
        /\ e <= NumAccounts + w * SendCap}
NewId(w) == NumAccounts + (w - 1) * SendCap + Cardinality(CreatedBy(w)) + 1
NumSends == Cardinality(DOMAIN entries) - NumAccounts

\* ------------------------------------------------------------------- send
\* What util.GenerateTx and util.SendTx may answer for one call of send().
SendOutcomes ==
    IF ledger.submit = "accept" THEN {"accepted"}
    ELSE IF ledger.submit = "reject" THEN {"generateErr", "sendFail"}
    ELSE {"generateErr", "sendFail", "accepted"}

\* A variant of the amount that the properties below must tell from it:
\* one unit in mode 3 as in mode 2.
Amounts_oneUnit(b) ==
    IF mode = 1 THEN 0..(entries[b].amount - 1) ELSE {1}

\* Another variant: the mode-1 draw may take all of b.amount.
Amounts_upToAll(b) ==
    IF mode = 1 THEN 0..entries[b].amount
    ELSE IF mode = 3 THEN {entries[b].amount}
    ELSE {1}

\* The amount send() picks for entry b: rand.Intn(b.amount) in mode 1
\* (panics, and so yields nothing, when b.amount <= 0), b.amount in mode 3,
\* and 1 otherwise.
Amounts(b) ==
    IF mode = 1 THEN 0..(entries[b].amount - 1)
    ELSE IF mode = 3 THEN {entries[b].amount}
    ELSE {1}

\* Variants of send() that the properties below must tell from send():
\* one that leaves b.nonce alone, one that updates b before it looks at the
\* answer of the ledger, and one that leaves b.amount alone.
send_keepNonce(b, id, amount, outcome) ==
    LET fresh == [amount |-> amount, nonce |-> 0, tx |-> NoTx]
    IN  IF outcome = "accepted"
        THEN [entries EXCEPT ![b].amount = @ - amount]
             @@ (id :> [fresh EXCEPT !.tx = [from   |-> b,
                                             nonce  |-> entries[b].nonce,
                                             amount |-> amount]])
        ELSE entries @@ (id :> fresh)

send_updateFirst(b, id, amount, outcome) ==
    LET fresh   == [amount |-> amount, nonce |-> 0, tx |-> NoTx]
        updated == [entries EXCEPT ![b].nonce  = @ + 1,
                                   ![b].amount = @ - amount]
    IN  IF outcome = "accepted"
        THEN updated
             @@ (id :> [fresh EXCEPT !.tx = [from   |-> b,
                                             nonce  |-> entries[b].nonce,
                                             amount |-> amount]])
        ELSE updated @@ (id :> fresh)

send_keepAmount(b, id, amount, outcome) ==
    LET fresh == [amount |-> amount, nonce |-> 0, tx |-> NoTx]
    IN  IF outcome = "accepted"
        THEN [entries EXCEPT ![b].nonce = @ + 1]
             @@ (id :> [fresh EXCEPT !.tx = [from   |-> b,
                                             nonce  |-> entries[b].nonce,
                                             amount |-> amount]])
        ELSE entries @@ (id :> fresh)

\* send(b): the entries after the call, in which id is the beneficiary.
send(b, id, amount, outcome) ==
    LET fresh == [amount |-> amount, nonce |-> 0, tx |-> NoTx]
    IN  IF outcome = "accepted"
        THEN [entries EXCEPT ![b].nonce  = @ + 1,
                             ![b].amount = @ - amount]
             @@ (id :> [fresh EXCEPT !.tx = [from   |-> b,
                                             nonce  |-> entries[b].nonce,
                                             amount |-> amount]])
        ELSE entries @@ (id :> fresh)

\* -------------------------------------------------------------------- Init
\* getNonce(address) at bootstrap: the accounts start at different nonces
getNonce(i) == i - 1

InitWith(submit, status) ==
    /\ mode \in Modes
    /\ threads \in ThreadCounts
    /\ tps \in TpsValues
    /\ ledger = [submit |-> submit, status |-> status]
    /\ \E amount0 \in StartAmounts :
         initial = [i \in Bootstrap |->
                        [amount |-> amount0, nonce |-> getNonce(i), tx |-> NoTx]]
    /\ entries = initial
    /\ pc = [w \in Threads |->
               IF w > threads THEN "idle"
               ELSE IF mode = 3 THEN "copy" ELSE "snapshot"]
    /\ balanceList = [w \in Threads |->
               IF w > threads \/ mode = 3 THEN <<>>
               ELSE newBalancesList([i \in 1..NumAccounts |-> i], threads, w - 1)]
    /\ copyBalances = [w \in Threads |-> <<>>]
    /\ idx = [w \in Threads |-> 1]
    /\ newBalance = [w \in Threads |-> Nil]
    /\ count = [w \in Threads |-> 0]
    /\ tpsCount = 0
    /\ reg = [w \in Threads |-> 0]
    /\ balances = [w \in Threads |-> [p \in 0..(SplitMode3 - 1) |->
               IF w > threads \/ mode # 3 THEN <<>>
               ELSE nilBalancesList(
                      newBalancesList([i \in 1..NumAccounts |-> i], threads, w - 1),
                      SplitMode3, p)]]
    /\ nextBalances = [w \in Threads |-> [p \in 0..(SplitMode3 - 1) |->
               IF w > threads \/ mode # 3 THEN <<>>
               ELSE newBalancesList(
                      newBalancesList([i \in 1..NumAccounts |-> i], threads, w - 1),
                      SplitMode3, p)]]
    /\ part = [w \in Threads |-> 0]
    /\ txCh = <<>>
    /\ checkBalanceList = [w \in Threads |->
               IF w > threads \/ mode # 1 THEN <<>>
               ELSE newBalancesList([i \in 1..NumAccounts |-> i], threads, w - 1)]
    /\ toPackedBalanceList = [w \in Threads |-> <<>>]
    /\ toConfirmBalanceList = [w \in Threads |-> <<>>]
    /\ checkPackC = [w \in Threads |-> FALSE]
    /\ confirmC = [w \in Threads |-> FALSE]
    /\ now = 0
    /\ txResult = [e \in EntryIds |-> NoResult]
    /\ elapse = [w \in Threads |-> 0]
    /\ sleepFor = [w \in Threads |-> 0]
    /\ lock = [w \in Threads |-> "free"]
    /\ keyList = <<>>
    /\ initList = <<>>
    /\ started = 0
    /\ taskAt = [t \in Tasks |-> 0]
    /\ done = {}
    /\ wg = 0
    /\ initResult = <<>>
    /\ initPc = "returned"

Init == InitWith("any", "any")

\* ------------------------------------------------------------------ time
\* A tick of some checker's ticker is waiting to be handled.  The checker
\* handles it at once: no other goroutine takes a step in between.
TickPending == \E m \in Threads : checkPackC[m] \/ confirmC[m]

\* The places where a worker spends its time: inside send(), in time.Sleep
\* and blocked on a full txCh.  The statements in between take no time.
AtSlowPoint(w) ==
    \/ pc[w] \in {"send", "send3"}
    \/ pc[w] \in {"sleep", "sleep3"} /\ sleepFor[w] > 0
    \/ pc[w] = "push" /\ Len(txCh) >= TxChCap

\* ------------------------------------------------------------ the mutex
\* lock.Lock() by the worker or the checker of thread w; the caller waits
\* until lock[w] is "free"
Lock(l, w, who) == [l EXCEPT ![w] = who]

\* A variant of Unlock that the properties below must tell from it: the
\* lock stays with its holder.
Unlock_held(l, w) == l

\* lock.Unlock()
Unlock(l, w) == [l EXCEPT ![w] = "free"]

\* ------------------------------------------------- loopSendMode1_2 (worker)
\* lock.Lock(); copyBalances := copy of balanceList; lock.Unlock()
Snapshot(w) ==
    /\ pc[w] = "snapshot"
    /\ ~TickPending
    /\ copyBalances' = [copyBalances EXCEPT ![w] = balanceList[w]]
    /\ idx' = [idx EXCEPT ![w] = 1]
    /\ pc' = [pc EXCEPT ![w] = IF balanceList[w] = <<>> THEN "filter" ELSE "send"]
    /\ UNCHANGED <<elapse, sleepFor>>
    /\ lock[w] = "free"
    /\ lock' = Unlock(Lock(lock, w, "worker"), w)
    /\ UNCHANGED bootVars
    /\ UNCHANGED <<mode, threads, tps, ledger, entries, initial, balanceList,
                   newBalance, count, tpsCount, reg, balances, nextBalances,
                   part, txCh, checkBalanceList, toPackedBalanceList,
                   toConfirmBalanceList, checkPackC, confirmC, now, txResult>>

\* A variant of the sleep that the properties below must tell from it: the
\* time already elapsed instead of the rest of the second.
SleepTime_elapsed(e) == e

\* the argument of time.Sleep in the limiter
SleepTime(e) == Second - e

\* count++; if count == tps { elapse := time.Now().Sub(tpsStartTime) ... and
\* the step of the range loop.  The elapsed time is an input.  At the
\* ceiling the worker enters the limiter: it sleeps for SleepTime(elapse)
\* when elapse < time.Second and goes on at once otherwise.
Throttle(w) ==
    LET last == idx[w] >= Len(copyBalances[w])
        hit  == count[w] + 1 = tps
    IN  /\ count' = [count EXCEPT ![w] = @ + 1]
        /\ IF hit
           THEN \E e \in Elapses :
                  /\ elapse' = [elapse EXCEPT ![w] = e]
                  /\ sleepFor' = [sleepFor EXCEPT ![w] =
                                     IF e < Second THEN SleepTime(e) ELSE 0]
                  /\ pc' = [pc EXCEPT ![w] = "sleep"]
                  /\ UNCHANGED idx
           ELSE /\ pc' = [pc EXCEPT ![w] = IF last THEN "filter" ELSE "send"]
                /\ idx' = [idx EXCEPT ![w] = @ + 1]
                /\ UNCHANGED <<elapse, sleepFor>>

\* newBalance := send(b), up to the channel send
Send(w) ==
    /\ pc[w] = "send"
    /\ ~TickPending
    /\ NumSends < SendCap
    /\ LET b == copyBalances[w][idx[w]]
       IN  \E amount \in Amounts(b), outcome \in SendOutcomes :
             /\ entries' = send(b, NewId(w), amount, outcome)
             /\ IF mode = 1 /\ amount > 0
                THEN /\ newBalance' = [newBalance EXCEPT ![w] = NewId(w)]
                     /\ pc' = [pc EXCEPT ![w] = "push"]
                     /\ UNCHANGED <<count, idx, elapse, sleepFor>>
                ELSE /\ Throttle(w)
                     /\ UNCHANGED newBalance
    /\ UNCHANGED lock
    /\ UNCHANGED bootVars
    /\ UNCHANGED <<mode, threads, tps, ledger, initial, balanceList,
                   copyBalances, tpsCount, reg, balances, nextBalances, part,
                   txCh, checkBalanceList, toPackedBalanceList,
                   toConfirmBalanceList, checkPackC, confirmC, now, txResult>>

\* txCh <- newBalance (blocks while the channel is full)
Push(w) ==
    /\ pc[w] = "push"
    /\ ~TickPending
    /\ Len(txCh) < TxChCap
    /\ txCh' = Append(txCh, newBalance[w])
    /\ newBalance' = [newBalance EXCEPT ![w] = Nil]
    /\ Throttle(w)
    /\ UNCHANGED lock
    /\ UNCHANGED bootVars
    /\ UNCHANGED <<mode, threads, tps, ledger, entries, initial, balanceList,
                   copyBalances, tpsCount, reg, balances, nextBalances, part,
                   checkBalanceList, toPackedBalanceList,
                   toConfirmBalanceList, checkPackC, confirmC, now, txResult>>

\* the end of time.Sleep(time.Second - elapse), if any; count = 0
Wake(w) ==
    /\ pc[w] = "sleep"
    /\ ~TickPending
    /\ count' = [count EXCEPT ![w] = 0]
    /\ elapse' = [elapse EXCEPT ![w] = 0]
    /\ sleepFor' = [sleepFor EXCEPT ![w] = 0]
    /\ idx' = [idx EXCEPT ![w] = @ + 1]
    /\ pc' = [pc EXCEPT ![w] =
                 IF idx[w] >= Len(copyBalances[w]) THEN "filter" ELSE "send"]
    /\ UNCHANGED lock
    /\ UNCHANGED bootVars
    /\ UNCHANGED <<mode, threads, tps, ledger, entries, initial, balanceList,
                   copyBalances, newBalance, tpsCount, reg, balances,
                   nextBalances, part, txCh, checkBalanceList,
                   toPackedBalanceList, toConfirmBalanceList, checkPackC,
                   confirmC, now, txResult>>

\* A variant of the filter that the properties below must tell from it: it
\* keeps every entry.
nextBalanceList_keepAll(list) == list

\* the entries of list that the filter after a pass keeps: b.amount > 0
nextBalanceList(list) ==
    SelectSeq(list, LAMBDA b : entries[b].amount > 0)

\* lock.Lock(); balanceList = nextBalanceList; lock.Unlock()
Filter(w) ==
    /\ pc[w] = "filter"
    /\ ~TickPending
    /\ balanceList' = [balanceList EXCEPT ![w] = nextBalanceList(@)]
    /\ pc' = [pc EXCEPT ![w] = "snapshot"]
    /\ UNCHANGED <<elapse, sleepFor>>
    /\ lock[w] = "free"
    /\ lock' = Unlock(Lock(lock, w, "worker"), w)
    /\ UNCHANGED bootVars
    /\ UNCHANGED <<mode, threads, tps, ledger, entries, initial, copyBalances,
                   idx, newBalance, count, tpsCount, reg, balances,
                   nextBalances, part, txCh, checkBalanceList,
                   toPackedBalanceList, toConfirmBalanceList, checkPackC,
                   confirmC, now, txResult>>

\* --------------------------------------------------- loopSendMode3 (worker)
\* copy(current, next) at the head of SendMode3(balances[p], nextBalances[p])
Copy3(w) ==
    /\ pc[w] = "copy"
    /\ ~TickPending
    /\ LET p == part[w]
       IN  /\ balances' = [balances EXCEPT ![w][p] = nextBalances[w][p]]
           /\ IF nextBalances[w][p] = <<>>
              THEN /\ part' = [part EXCEPT ![w] = (p + 1) % SplitMode3]
                   /\ UNCHANGED pc
              ELSE /\ pc' = [pc EXCEPT ![w] = "send3"]
                   /\ UNCHANGED part
    /\ idx' = [idx EXCEPT ![w] = 1]
    /\ UNCHANGED <<elapse, sleepFor>>
    /\ UNCHANGED lock
    /\ UNCHANGED bootVars
    /\ UNCHANGED <<mode, threads, tps, ledger, entries, initial, balanceList,
                   copyBalances, newBalance, count, tpsCount, reg,
                   nextBalances, txCh, checkBalanceList, toPackedBalanceList,
                   toConfirmBalanceList, checkPackC, confirmC, now, txResult>>

\* newBalance := send(b); next[i] = newBalance; and the read of tpsCount++
Send3(w) ==
    /\ pc[w] = "send3"
    /\ ~TickPending
    /\ NumSends < SendCap
    /\ LET p == part[w]
           b == balances[w][p][idx[w]]
       IN  \E amount \in Amounts(b), outcome \in SendOutcomes :
             /\ entries' = send(b, NewId(w), amount, outcome)
             /\ nextBalances' = [nextBalances EXCEPT ![w][p][idx[w]] = NewId(w)]
    /\ reg' = [reg EXCEPT ![w] = tpsCount]
    /\ pc' = [pc EXCEPT ![w] = "count3"]
    /\ UNCHANGED <<elapse, sleepFor>>
    /\ UNCHANGED lock
    /\ UNCHANGED bootVars
    /\ UNCHANGED <<mode, threads, tps, ledger, initial, balanceList,
                   copyBalances, idx, newBalance, count, tpsCount, balances,
                   part, txCh, checkBalanceList, toPackedBalanceList,
                   toConfirmBalanceList, checkPackC, confirmC, now, txResult>>

\* the step of the range loop of SendMode3, and of loopSendMode3 after it
Advance3(w) ==
    IF idx[w] >= Len(balances[w][part[w]])
    THEN /\ part' = [part EXCEPT ![w] = (@ + 1) % SplitMode3]
         /\ pc' = [pc EXCEPT ![w] = "copy"]
         /\ UNCHANGED idx
    ELSE /\ idx' = [idx EXCEPT ![w] = @ + 1]
         /\ pc' = [pc EXCEPT ![w] = "send3"]
         /\ UNCHANGED part

\* the write of tpsCount++; if tpsCount == tps { elapse := ... }.  tpsCount
\* is shared by the workers without a lock: the write stores the value read
\* in Send3 plus one.  At the ceiling the worker enters the limiter.
Count3(w) ==
    /\ pc[w] = "count3"
    /\ ~TickPending
    /\ tpsCount' = reg[w] + 1
    /\ IF reg[w] + 1 = tps
       THEN \E e \in Elapses :
              /\ elapse' = [elapse EXCEPT ![w] = e]
              /\ sleepFor' = [sleepFor EXCEPT ![w] =
                                 IF e < Second THEN SleepTime(e) ELSE 0]
              /\ pc' = [pc EXCEPT ![w] = "sleep3"]
              /\ UNCHANGED <<idx, part>>
       ELSE /\ Advance3(w)
            /\ UNCHANGED <<elapse, sleepFor>>
    /\ UNCHANGED lock
    /\ UNCHANGED bootVars
    /\ UNCHANGED <<mode, threads, tps, ledger, entries, initial, balanceList,
                   copyBalances, newBalance, count, reg, balances,
                   nextBalances, txCh, checkBalanceList, toPackedBalanceList,
                   toConfirmBalanceList, checkPackC, confirmC, now, txResult>>

\* the end of time.Sleep in SendMode3, if any; tpsCount = 0
Wake3(w) ==
    /\ pc[w] = "sleep3"
    /\ ~TickPending
    /\ tpsCount' = 0
    /\ elapse' = [elapse EXCEPT ![w] = 0]
    /\ sleepFor' = [sleepFor EXCEPT ![w] = 0]
    /\ Advance3(w)
    /\ UNCHANGED lock
    /\ UNCHANGED bootVars
    /\ UNCHANGED <<mode, threads, tps, ledger, entries, initial, balanceList,
                   copyBalances, newBalance, count, reg, balances,
                   nextBalances, txCh, checkBalanceList, toPackedBalanceList,
                   toConfirmBalanceList, checkPackC, confirmC, now, txResult>>

\* ------------------------------------------------- loopCheckMode1 (checker)
\* What getTx may return for one entry: a result whose status is "block" or
\* "pool", a result with another status ("unknown"), or the empty result
\* that comes with an error of util.GetTransactionByHash ("error").
TxOutcomes ==
    IF ledger.status = "block" THEN {"block"}
    ELSE {"block", "pool", "unknown", "error"}

\* getTx: the result map, reduced to its length and its status
getTx(outcome) ==
    IF outcome = "error" THEN [len |-> 0, status |-> ""]
    ELSE [len |-> 1, status |-> outcome]

\* where getIncludedAndPendingBalance puts an entry with this answer
Classify(b, outcome) ==
    IF entries[b].tx = NoTx THEN "skip"
    ELSE LET result == getTx(outcome)
         IN  IF result.len > 0
             THEN IF result.status = "block" THEN "include"
                  ELSE IF result.status = "pool" THEN "pending"
                  ELSE "drop"
             ELSE "drop"

RECURSIVE SelectClass(_, _, _)
SelectClass(list, outcomes, class) ==
    IF list = <<>> THEN <<>>
    ELSE LET rest == SelectClass(Tail(list), Tail(outcomes), class)
         IN  IF Classify(Head(list), Head(outcomes)) = class
             THEN <<Head(list)>> \o rest
             ELSE rest

\* getIncludedAndPendingBalance(balances), given the answer for each entry
getIncludedAndPendingBalance(list, outcomes) ==
    [include |-> SelectClass(list, outcomes, "include"),
     pending |-> SelectClass(list, outcomes, "pending")]

\* case b := <-txCh
Receive(m) ==
    /\ mode = 1
    /\ m \in Active
    /\ txCh # <<>>
    /\ ~TickPending
    /\ toPackedBalanceList' = [toPackedBalanceList EXCEPT ![m] = Append(@, Head(txCh))]
    /\ txCh' = Tail(txCh)
    /\ UNCHANGED <<elapse, sleepFor>>
    /\ UNCHANGED lock
    /\ UNCHANGED bootVars
    /\ UNCHANGED <<mode, threads, tps, ledger, entries, initial, pc,
                   balanceList, copyBalances, idx, newBalance, count,
                   tpsCount, reg, balances, nextBalances, part,
                   checkBalanceList, toConfirmBalanceList, checkPackC,
                   confirmC, now, txResult>>

\* case <-checkPack.C
CheckPack(m) ==
    /\ mode = 1
    /\ m \in Active
    /\ checkPackC[m]
    /\ \A k \in 1..(m - 1) : ~checkPackC[k] /\ ~confirmC[k]
    /\ LET list == toPackedBalanceList[m]
       IN  \E outcomes \in [1..Len(list) -> TxOutcomes] :
             LET got == getIncludedAndPendingBalance(list, outcomes)
             IN  /\ toPackedBalanceList' = [toPackedBalanceList EXCEPT ![m] = got.pending]
                 /\ toConfirmBalanceList' = [toConfirmBalanceList EXCEPT ![m] =
                        [k \in DOMAIN @ \cup {now} |->
                            IF k = now THEN got.include ELSE @[k]]]
                 /\ txResult' = [e \in EntryIds |->
                        IF \E i \in 1..Len(list) :
                               list[i] = e /\ Classify(e, outcomes[i]) # "skip"
                        THEN LET outcome == outcomes[CHOOSE i \in 1..Len(list) : list[i] = e]
                             IN  [status |-> outcome,
                                  at |-> IF outcome = "block" THEN now ELSE 0]
                        ELSE txResult[e]]
    /\ checkPackC' = [checkPackC EXCEPT ![m] = FALSE]
    /\ UNCHANGED <<elapse, sleepFor>>
    /\ UNCHANGED lock
    /\ UNCHANGED bootVars
    /\ UNCHANGED <<mode, threads, tps, ledger, entries, initial, pc,
                   balanceList, copyBalances, idx, newBalance, count,
                   tpsCount, reg, balances, nextBalances, part, txCh,
                   checkBalanceList, confirmC, now>>

\* Variants of the test that the properties below must tell from it: one
\* that releases a bucket at its deadline, one that releases it a sweep late.
Expired_atDeadline(key) == now - key >= confirmTime

Expired_oneSweepLate(key) == now - key > confirmTime + TickerPeriod

\* duration > confirmTime for the bucket with this key
Expired(key) == now - key > confirmTime

\* the orders in which a range over a map may visit the keys in S
Orders(S) ==
    {o \in [1..Cardinality(S) -> S] :
        \A i, j \in 1..Cardinality(S) : i # j => o[i] # o[j]}

RECURSIVE AppendBuckets(_, _, _)
AppendBuckets(list, buckets, order) ==
    IF order = <<>> THEN list
    ELSE AppendBuckets(list \o buckets[Head(order)], buckets, Tail(order))

\* case <-confirm.C
Confirm(m) ==
    /\ mode = 1
    /\ m \in Active
    /\ confirmC[m]
    /\ ~checkPackC[m]
    /\ \A k \in 1..(m - 1) : ~checkPackC[k] /\ ~confirmC[k]
    /\ LET buckets == toConfirmBalanceList[m]
           old     == {key \in DOMAIN buckets : Expired(key)}
       IN  /\ \E order \in Orders(old) :
                 checkBalanceList' = [checkBalanceList EXCEPT ![m] =
                                        AppendBuckets(@, buckets, order)]
           /\ IF old = {}
              THEN UNCHANGED lock
              ELSE /\ lock[m] = "free"
                   /\ lock' = Unlock(Lock(lock, m, "checker"), m)
           /\ toConfirmBalanceList' = [toConfirmBalanceList EXCEPT ![m] =
                  [k \in DOMAIN buckets \ old |-> buckets[k]]]
    /\ confirmC' = [confirmC EXCEPT ![m] = FALSE]
    /\ UNCHANGED <<elapse, sleepFor>>
    /\ UNCHANGED bootVars
    /\ UNCHANGED <<mode, threads, tps, ledger, entries, initial, pc,
                   balanceList, copyBalances, idx, newBalance, count,
                   tpsCount, reg, balances, nextBalances, part, txCh,
                   toPackedBalanceList, checkPackC, now, txResult>>

\* One ticker period passes: both tickers of every checker fire.  A checker
\* waits in its select and a case takes far less than a period: the ticks of
\* the period before have been handled and txCh has been drained.  The
\* period passes while the workers are at slow points.
Tick ==
    /\ mode = 1
    /\ now < MaxTicks * TickerPeriod
    /\ ~TickPending
    /\ txCh = <<>>
    /\ \A w \in Active : AtSlowPoint(w)
    /\ now' = now + TickerPeriod
    /\ checkPackC' = [m \in Threads |-> m \in Active]
    /\ confirmC' = [m \in Threads |-> m \in Active]
    /\ UNCHANGED <<elapse, sleepFor>>
    /\ UNCHANGED lock
    /\ UNCHANGED bootVars
    /\ UNCHANGED <<mode, threads, tps, ledger, entries, initial, pc,
                   balanceList, copyBalances, idx, newBalance, count,
                   tpsCount, reg, balances, nextBalances, part, txCh,
                   checkBalanceList, toPackedBalanceList,
                   toConfirmBalanceList, txResult>>

\* ------------------------------------------------------------ specification
WorkerStep(w) ==
    \/ Snapshot(w)
    \/ Send(w)
    \/ Push(w)
    \/ Wake(w)
    \/ Filter(w)
    \/ Copy3(w)
    \/ Send3(w)
    \/ Count3(w)
    \/ Wake3(w)

WorkerNext == \E w \in Threads : WorkerStep(w)

CheckerNext ==
    \E m \in Threads :
        \/ Receive(m)
        \/ CheckPack(m)
        \/ Confirm(m)

Next == WorkerNext \/ CheckerNext \/ Tick

Spec == Init /\ [][Next]_vars

\* The stub ledger that accepts nothing, the one that reports every
\* transaction as included, and the one that accepts everything.  The Go
\* scheduler runs every goroutine that can take a step.
Fairness == \A w \in Threads : WF_vars(WorkerStep(w))

InitReject == InitWith("reject", "any")
SpecReject == InitReject /\ [][Next]_vars

InitBlock == InitWith("any", "block")
SpecBlock == InitBlock /\ [][Next]_vars

InitAccept == InitWith("accept", "any")
SpecAccept == InitAccept /\ [][Next]_vars /\ Fairness

\* ------------------------------------------------------------ initAccount
\* a nil *balance in initAccount's balanceList
NilBalance == [key |-> 0, amount |-> 0, nonce |-> 0]

\* unit := len(keyList) / threads
unit == Len(keyList) \div threads

\* the first index (Go's, from 0) of the slice of goroutine i
SliceStart(i) == i * unit

\* A variant of the end of a slice that the properties below must tell from
\* it: the last slice does not take the remainder.
SliceEnd_noRemainder(i) == (i + 1) * unit

\* the index after the last of the slice of goroutine i
SliceEnd(i) == IF i = threads - 1 THEN Len(keyList) ELSE (i + 1) * unit

\* the key lists of a key file: strings.Split returns at least one string
KeyLists == UNION {[1..n -> Keys] : n \in 1..MaxKeys}

\* initAccount has read the key file; no entry exists and no worker runs
BootInit ==
    /\ mode \in Modes
    /\ threads \in InitThreadCounts
    /\ tps \in TpsValues
    /\ ledger = [submit |-> "any", status |-> "any"]
    /\ initial = <<>>
    /\ entries = <<>>
    /\ pc = [w \in Threads |-> "idle"]
    /\ balanceList = [w \in Threads |-> <<>>]
    /\ copyBalances = [w \in Threads |-> <<>>]
    /\ idx = [w \in Threads |-> 1]
    /\ newBalance = [w \in Threads |-> Nil]
    /\ count = [w \in Threads |-> 0]
    /\ tpsCount = 0
    /\ reg = [w \in Threads |-> 0]
    /\ balances = [w \in Threads |-> [p \in 0..(SplitMode3 - 1) |-> <<>>]]
    /\ nextBalances = [w \in Threads |-> [p \in 0..(SplitMode3 - 1) |-> <<>>]]
    /\ part = [w \in Threads |-> 0]
    /\ txCh = <<>>
    /\ checkBalanceList = [w \in Threads |-> <<>>]
    /\ toPackedBalanceList = [w \in Threads |-> <<>>]
    /\ toConfirmBalanceList = [w \in Threads |-> <<>>]
    /\ checkPackC = [w \in Threads |-> FALSE]
    /\ confirmC = [w \in Threads |-> FALSE]
    /\ now = 0
    /\ txResult = [e \in EntryIds |-> NoResult]
    /\ elapse = [w \in Threads |-> 0]
    /\ sleepFor = [w \in Threads |-> 0]
    /\ lock = [w \in Threads |-> "free"]
    /\ keyList \in KeyLists
    /\ initList = [k \in 1..Len(keyList) |-> NilBalance]
    /\ started = 0
    /\ taskAt = [t \in Tasks |-> 0]
    /\ done = {}
    /\ wg = 0
    /\ initResult = <<>>
    /\ initPc = "loop"

\* wg.Add(1); go initBalance(balanceList, keyList, i*unit, end, wg); i++
StartTask ==
    /\ initPc = "loop"
    /\ started < threads
    /\ wg' = wg + 1
    /\ taskAt' = [taskAt EXCEPT ![started] = SliceStart(started)]
    /\ started' = started + 1
    /\ initPc' = IF started + 1 = threads THEN "wait" ELSE "loop"
    /\ UNCHANGED <<keyList, initList, done, initResult, threads, runVars>>

\* one round of the loop of initBalance in goroutine t: the key is skipped
\* when it is empty or its shard has no client, and the entry is stored
\* when the balance getBalance returns is positive
LoadKey(t) ==
    /\ t < started
    /\ t \notin done
    /\ taskAt[t] < SliceEnd(t)
    /\ LET i   == taskAt[t] + 1
           key == keyList[i]
       IN  initList' =
             IF key.hex # "" /\ key.client /\ key.balance > 0
             THEN [initList EXCEPT ![i] = [key    |-> i,
                                           amount |-> key.balance,
                                           nonce  |-> getNonce(i)]]
             ELSE initList
    /\ taskAt' = [taskAt EXCEPT ![t] = @ + 1]
    /\ UNCHANGED <<keyList, started, done, wg, initResult, initPc, threads, runVars>>

\* the end of initBalance in goroutine t: defer wg.Done()
TaskDone(t) ==
    /\ t < started
    /\ t \notin done
    /\ taskAt[t] >= SliceEnd(t)
    /\ done' = done \cup {t}
    /\ wg' = wg - 1
    /\ UNCHANGED <<keyList, initList, started, taskAt, initResult, initPc, threads, runVars>>

\* wg.Wait() returns; result is made of the entries of balanceList that are
\* not nil and have a positive amount
Join ==
    /\ initPc = "wait"
    /\ wg = 0
    /\ initResult' = SelectSeq(initList, LAMBDA b : b # NilBalance /\ b.amount > 0)
    /\ initPc' = "returned"
    /\ UNCHANGED <<keyList, initList, started, taskAt, done, wg, threads, runVars>>

BootNext ==
    \/ StartTask
    \/ \E t \in Tasks : LoadKey(t)
    \/ \E t \in Tasks : TaskDone(t)
    \/ Join

SpecBoot == BootInit /\ [][BootNext]_vars

\* ------------------------------------------------------------- properties
\* the entries send() allocated, and those whose transaction was accepted
Beneficiaries == DOMAIN entries \ Bootstrap
Accepted == {e \in Beneficiaries : entries[e].tx # NoTx}
AcceptedFrom(b) == {e \in Accepted : entries[e].tx.from = b}

\* the entries a checker has appended to its balanceList
Released(m) == Range(checkBalanceList[m]) \ Bootstrap

\* C1 -- No two accepted transactions from the same address carry the same
\* nonce and an entry's nonce never decreases: a step changes the nonce of
\* an entry only by adding 1, and exactly when a transaction signed with the
\* nonce the entry had before the step was accepted.
NonceUnique ==
    \A e1, e2 \in Accepted :
        (e1 # e2 /\ entries[e1].tx.from = entries[e2].tx.from)
            => entries[e1].tx.nonce # entries[e2].tx.nonce

NonceStep ==
    entries' # entries =>
        \A b \in DOMAIN entries :
            LET new == {e \in DOMAIN entries' \ DOMAIN entries :
                            /\ entries'[e].tx # NoTx
                            /\ entries'[e].tx.from = b}
            IN  /\ Cardinality(new) <= 1
                /\ entries'[b].nonce = entries[b].nonce + Cardinality(new)
                /\ \A e \in new : entries'[e].tx.nonce = entries[b].nonce

C1_NonceNeverReused == []NonceUnique /\ [][NonceStep]_vars

\* two transactions from one address have been accepted
C1_Witness == \E b \in DOMAIN entries : Cardinality(AcceptedFrom(b)) >= 2

\* C2 -- When every submission fails, every bootstrap entry keeps the nonce
\* and the amount it started with, and every beneficiary send() returned has
\* no transaction hash and has never been sent from successfully.
C2_FailedSendLeavesSource ==
    /\ \A i \in Bootstrap : entries[i] = initial[i]
    /\ \A e \in Beneficiaries : entries[e].tx = NoTx /\ entries[e].nonce = 0

\* every submission failed and a worker has finished a pass of at least
\* one send
C2_Witness ==
    /\ ledger.submit = "reject"
    /\ NumSends >= 2
    /\ \E w \in Active :
          /\ pc[w] \in {"snapshot", "copy"}
          /\ CreatedBy(w) # {}

\* C3 -- In mode 1 every entry a checker has released after the cool-down
\* is in the balanceList some worker takes its snapshot from.
C3_ReleasedEntryReachesWorker ==
    mode = 1 =>
        \A m \in Active : \A e \in Released(m) :
            \E w \in Active : e \in Range(balanceList[w])

\* ---- mode 1: where an entry is while the checkers track it
Count(list, e) == Cardinality({i \in 1..Len(list) : list[i] = e})

InQueue(e)  == \E m \in Active : e \in Range(toPackedBalanceList[m])
InBucket(e, key) ==
    \E m \in Active :
        /\ key \in DOMAIN toConfirmBalanceList[m]
        /\ e \in Range(toConfirmBalanceList[m][key])
InPool(e)   == \E m \in Active : e \in Range(checkBalanceList[m])

\* the occurrences of e in the buckets with these keys
RECURSIVE InBuckets(_, _, _)
InBuckets(buckets, keys, e) ==
    IF keys = {} THEN 0
    ELSE LET key == CHOOSE k \in keys : TRUE
         IN  Count(buckets[key], e) + InBuckets(buckets, keys \ {key}, e)

\* the occurrences of e in the queue, the buckets and the balanceList of
\* these checkers
RECURSIVE InCheckers(_, _)
InCheckers(ms, e) ==
    IF ms = {} THEN 0
    ELSE LET m == CHOOSE k \in ms : TRUE
         IN  Count(toPackedBalanceList[m], e)
                 + InBuckets(toConfirmBalanceList[m],
                             DOMAIN toConfirmBalanceList[m], e)
                 + Count(checkBalanceList[m], e)
                 + InCheckers(ms \ {m}, e)

\* the number of places that hold e: the channel, the queues, the buckets
\* and the pools of the checkers, each occurrence counted
Places(e) == Count(txCh, e) + InCheckers(Active, e)

\* the beneficiaries a worker has put on txCh
Forwarded ==
    {e \in Beneficiaries :
        /\ mode = 1
        /\ entries[e].amount > 0
        /\ \A w \in Active : newBalance[w] # e}

\* C4 -- In mode 1 a checker appends an entry to its balanceList only while
\* it handles a tick of the confirm ticker, only if the last poll of the
\* entry answered "block", and only when more than confirmTime has passed
\* since that poll; an entry whose last answer was "pool" or anything else
\* is in no checker's balanceList.
ReleasedWereIncluded ==
    \A m \in Active : \A e \in Released(m) : txResult[e].status = "block"

ReleaseStep ==
    checkBalanceList' # checkBalanceList =>
        \A m \in Threads : \A e \in DOMAIN entries :
            Count(checkBalanceList'[m], e) > Count(checkBalanceList[m], e)
                => /\ confirmC[m]
                   /\ txResult[e].status = "block"
                   /\ now - txResult[e].at > confirmTime

C4_ReleaseOnlyAfterCoolDown == []ReleasedWereIncluded /\ [][ReleaseStep]_vars

\* one entry has been released while another one was last seen in the pool
\* or with an unknown status
C4_Witness ==
    /\ \E m \in Active : Released(m) # {}
    /\ \E e \in DOMAIN entries : txResult[e].status \in {"pool", "unknown"}

\* C5 -- In mode 1 no bucket is older than confirmTime plus one ticker
\* period, after a sweep no bucket is older than confirmTime, and an entry
\* that a poll answered "block" for is in the bucket of that poll until the
\* sweep that ends this time, and in a checker's balanceList from then on.
C5_ReleasedWithinOneSweep ==
    mode = 1 =>
        /\ \A m \in Active : \A key \in DOMAIN toConfirmBalanceList[m] :
              /\ now - key <= confirmTime + TickerPeriod
              /\ ~confirmC[m] => now - key <= confirmTime
        /\ \A e \in DOMAIN entries :
              txResult[e].status = "block" =>
                  \/ InBucket(e, txResult[e].at)
                  \/ InPool(e) /\ now - txResult[e].at > confirmTime

\* a sweep has just released an entry, one ticker period after its deadline
C5_Witness ==
    /\ ~TickPending
    /\ \E e \in DOMAIN entries :
          /\ InPool(e)
          /\ txResult[e].status = "block"
          /\ now - txResult[e].at = confirmTime + TickerPeriod

\* C6 -- In mode 1, when every poll answers "block", every beneficiary a
\* worker has put on txCh is at every moment in exactly one place: the
\* channel, a checker's queue, one bucket, or (once) a checker's balanceList.
C6_ForwardedTrackedOnce ==
    (mode = 1 /\ ledger.status = "block") =>
        \A e \in Forwarded : Places(e) = 1

\* C7 -- In mode 1 an entry whose last status query ended with an error is
\* still in a checker's queue.
C7_QueryErrorKeepsEntryQueued ==
    mode = 1 =>
        \A e \in DOMAIN entries : txResult[e].status = "error" => InQueue(e)

\* ---- the partitions the workers start from
\* balances[i] of sendTxCmd.Run, for worker w = i + 1
Partition(w) == newBalancesList([i \in 1..NumAccounts |-> i], threads, w - 1)

\* C8 -- In modes 1 and 2 the balanceList a worker takes a snapshot of holds
\* no entry with amount 0, send() is called only on an entry with a positive
\* amount, and an entry that has left a worker's balanceList never comes
\* back to it.
NoExhaustedSource ==
    mode \in {1, 2} =>
        \A w \in Active :
            /\ pc[w] = "snapshot" =>
                  \A e \in Range(balanceList[w]) : entries[e].amount > 0
            /\ pc[w] = "send" =>
                  entries[copyBalances[w][idx[w]]].amount > 0

NoResurface ==
    balanceList' # balanceList =>
        \A w \in Threads : \A e \in DOMAIN entries :
            e \notin Range(balanceList[w]) => e \notin Range(balanceList'[w])

C8_ExhaustedEntryLeaves == []NoExhaustedSource /\ [][NoResurface]_vars

\* a worker sends in a later pass, from a balanceList that an exhausted
\* entry of its partition has left
C8_Witness ==
    /\ mode = 2
    /\ \E w \in Active :
          /\ pc[w] = "send"
          /\ \E e \in Range(Partition(w)) :
                /\ entries[e].amount = 0
                /\ e \notin Range(balanceList[w])
                /\ e \notin Range(copyBalances[w])

\* C9 -- With one worker in mode 2 and every submission accepted: every
\* accepted transaction moves 1 unit, an account's amount is its start
\* amount less the transactions accepted from it, the accounts are sent
\* from in turn (their numbers of sends differ by at most one), and in the
\* end the balanceList is empty, every account is at 0 after as many sends
\* as its start amount, and the sends number the sum of the start amounts.
OneWorkerMode2 == mode = 2 /\ threads = 1 /\ ledger.submit = "accept"

TotalStart == SumSeq(initial, [i \in 1..NumAccounts |-> i])

DrainSafe ==
    OneWorkerMode2 =>
        /\ \A e \in Beneficiaries :
              entries[e].tx # NoTx /\ entries[e].tx.amount = 1
        /\ \A i \in Bootstrap :
              /\ entries[i].amount = initial[i].amount - Cardinality(AcceptedFrom(i))
              /\ entries[i].amount >= 0
        /\ \A i, j \in Bootstrap :
              Cardinality(AcceptedFrom(i)) <= Cardinality(AcceptedFrom(j)) + 1
        /\ NumSends <= TotalStart

Drained ==
    /\ balanceList[1] = <<>>
    /\ NumSends = TotalStart
    /\ \A i \in Bootstrap :
          /\ entries[i].amount = 0
          /\ Cardinality(AcceptedFrom(i)) = initial[i].amount

C9_Mode2Drains == []DrainSafe /\ (OneWorkerMode2 ~> Drained)

\* accounts that started with more than one unit have been drained
C9_Witness ==
    /\ OneWorkerMode2
    /\ Drained
    /\ \A i \in Bootstrap : initial[i].amount >= 2

\* C10 -- In mode 3 with every submission accepted, between two calls of
\* SendMode3: the amounts of the entries in a worker's nextBalances add up
\* to the start amounts of its partition, every part has the length it
\* started with, and a slot that has been sent from holds the beneficiary of
\* the last transaction from it, whose source is at 0 and in no slot.
Rotation(w) == nextBalances[w][0] \o nextBalances[w][1] \o nextBalances[w][2]

C10_Mode3Conserves ==
    (mode = 3 /\ ledger.submit = "accept") =>
        \A w \in Active :
            pc[w] = "copy" =>
                /\ SumSeq(entries, Rotation(w)) = SumSeq(initial, Partition(w))
                /\ \A p \in 0..(SplitMode3 - 1) :
                      /\ Len(nextBalances[w][p])
                           = Len(newBalancesList(Partition(w), SplitMode3, p))
                      /\ \A i \in 1..Len(nextBalances[w][p]) :
                            LET source == balances[w][p][i]
                                held   == nextBalances[w][p][i]
                            IN  IF source = Nil
                                THEN held = newBalancesList(Partition(w), SplitMode3, p)[i]
                                ELSE /\ entries[held].tx.from = source
                                     /\ entries[held].amount = entries[held].tx.amount
                                     /\ entries[source].amount = 0
                                     /\ source \notin Range(Rotation(w))
                                     /\ AcceptedFrom(held) = {}

\* a slot is in its second round: the beneficiary in it has replaced a
\* beneficiary
C10_Witness ==
    /\ mode = 3
    /\ ledger.submit = "accept"
    /\ \E w \in Active :
          /\ pc[w] = "copy"
          /\ \E p \in 0..(SplitMode3 - 1) : \E i \in 1..Len(balances[w][p]) :
                balances[w][p][i] \in Beneficiaries

\* ---- the limiter
\* the counter a worker's limiter tests: count in loopSendMode1_2, the
\* package variable tpsCount in SendMode3
Counter(w) == IF mode = 3 THEN tpsCount ELSE count[w]

InLimiter(w) == pc[w] \in {"sleep", "sleep3"}

\* C11 -- With one worker: the worker is in the limiter exactly when its
\* counter has reached tps; there, if less than a second has elapsed since
\* the window started, it sleeps for at least the rest of the second and at
\* most a second, and otherwise it does not sleep, so that a window with tps
\* sends lasts at least a second; on leaving the limiter the counter is 0.
LimiterOf(w) ==
    /\ ~InLimiter(w) =>
          /\ Counter(w) < tps
          /\ sleepFor[w] = 0
    /\ InLimiter(w) =>
          /\ Counter(w) = tps
          /\ elapse[w] + sleepFor[w] >= Second
          /\ IF elapse[w] < Second
             THEN /\ sleepFor[w] >= Second - elapse[w]
                  /\ sleepFor[w] <= Second
             ELSE sleepFor[w] = 0

LimiterAlone == threads = 1 => LimiterOf(1)

LimiterReset ==
    (pc' # pc /\ threads = 1 /\ InLimiter(1)) => Counter(1)' = 0

C11_LimiterOneWorker == []LimiterAlone /\ [][LimiterReset]_vars

\* the single worker sleeps for the rest of a second that has partly elapsed
C11_Witness ==
    /\ threads = 1
    /\ InLimiter(1)
    /\ elapse[1] > 0
    /\ elapse[1] < Second
    /\ sleepFor[1] = Second - elapse[1]

\* C12 -- With any number of workers, every worker's limiter is as it is
\* for a worker that runs alone: the worker is in the limiter exactly when
\* the counter its limiter tests has reached tps, whatever the others do.
C12_LimiterPerWorker == \A w \in Active : LimiterOf(w)

\* ---- who holds an entry
\* the entries in the lists and local variables of worker w
WorkerHolds(w) ==
    IF mode = 3
    THEN UNION {Range(balances[w][p]) \cup Range(nextBalances[w][p]) :
                   p \in 0..(SplitMode3 - 1)} \ {Nil}
    ELSE (Range(balanceList[w]) \cup Range(copyBalances[w]) \cup {newBalance[w]})
            \ {Nil}

\* the entries checker m tracks: its queue and its buckets
MonitorTracks(m) ==
    Range(toPackedBalanceList[m])
        \cup UNION {Range(toConfirmBalanceList[m][key]) :
                        key \in DOMAIN toConfirmBalanceList[m]}

\* the entry worker w is about to call send() on
Sending(w) ==
    IF pc[w] = "send" THEN {copyBalances[w][idx[w]]}
    ELSE IF pc[w] = "send3" THEN {balances[w][part[w]][idx[w]]}
    ELSE {}

\* the partitions are pairwise disjoint and cover the bootstrap list, no
\* entry is with two workers, and no two workers are about to send from
\* the same entry
WorkersDisjoint ==
    IF threads = 1
    THEN Range(Partition(1)) = Bootstrap
    ELSE LET first  == Range(Partition(1))
             second == Range(Partition(2))
             held   == WorkerHolds(2)
         IN  /\ first \cup second = Bootstrap
             /\ first \cap second = {}
             /\ \A e \in WorkerHolds(1) : e \notin held
             /\ \A e \in Sending(1) : e \notin Sending(2)

\* C13 -- Every entry has one owner: the partitions of the workers are
\* pairwise disjoint and cover the bootstrap list, no entry is with two
\* workers, no two workers are about to send from the same entry, and an
\* entry in the channel, in a checker's queue or in one of its buckets is
\* with no worker and in one such place only.
OneOwner ==
    /\ WorkersDisjoint
    /\ mode = 1 =>
          LET held == UNION {WorkerHolds(w) : w \in Active}
          IN  /\ \A m \in Active : \A e \in MonitorTracks(m) :
                    /\ e \notin held
                    /\ \A i \in 1..Len(txCh) : txCh[i] # e
                    /\ \A m2 \in Active \ {m} : e \notin MonitorTracks(m2)
              /\ \A i \in 1..Len(txCh) : txCh[i] \notin held

C13_ExactlyOneOwner == []OneOwner

\* two workers are about to send while a checker tracks a beneficiary
C13_Witness ==
    /\ threads = 2
    /\ Sending(1) # {}
    /\ Sending(2) # {}
    /\ \E m \in Active : MonitorTracks(m) # {}

\* the loopCheckMode1 goroutines StartSend has started
Monitors == IF mode = 1 THEN Active ELSE {}

\* C14 -- In mode 1 one checker runs for the whole process and it alone
\* receives from the channel: all the entries that checkers track are in
\* the queue and the buckets of one and the same checker.
C14_SingleMonitor ==
    mode = 1 =>
        \E m \in Monitors : \A m2 \in Monitors \ {m} : MonitorTracks(m2) = {}

C16_RotationHoldsFundedEntries ==
    mode = 3 =>
        \A w \in Active : \A e \in Range(Rotation(w)) :
            e \in Bootstrap \/ entries[e].tx # NoTx

\* C17 -- In mode 1 every entry that a worker has put on the channel is the
\* beneficiary of an accepted submission: it has a transaction hash and a
\* positive amount.
C17_ForwardedWereAccepted ==
    mode = 1 =>
        \A e \in Forwarded : entries[e].tx # NoTx /\ entries[e].amount > 0

\* C18 -- The amount of every submitted transaction is in the range of its
\* mode: in mode 1 it is positive and less than what the source held, so
\* that the source keeps a positive amount; in mode 2 it is 1; in mode 3 it
\* is all the source held, so that the source keeps nothing.
C18_AmountInRange ==
    \A e \in Accepted :
        LET a    == entries[e].tx.amount
            left == entries[entries[e].tx.from].amount
        IN  /\ mode = 1 => a > 0 /\ left > 0
            /\ mode = 2 => a = 1
            /\ mode = 3 => a > 0 /\ left = 0

\* C20 -- In mode 1 every entry of a worker's balanceList has an amount of
\* at least 1, so the worker's balanceList keeps every entry of its
\* partition and send() always has an amount to draw; in every mode no
\* entry has a negative amount.
C20_AmountsStayPositive ==
    /\ \A e \in DOMAIN entries : entries[e].amount >= 0
    /\ mode = 1 =>
          \A w \in Active :
              LET list == balanceList[w]
                  mine == Partition(w)
              IN  /\ \A i \in 1..Len(list) : entries[list[i]].amount >= 1
                  /\ \A i \in 1..Len(mine) :
                        \E k \in 1..Len(list) : list[k] = mine[i]
                  /\ pc[w] = "send" => Amounts(copyBalances[w][idx[w]]) # {}

\* a mode-1 source is down to 1 after transactions that took the rest, and
\* its worker has filtered its balanceList since
C20_Witness ==
    /\ mode = 1
    /\ \E w \in Active :
          /\ pc[w] = "snapshot"
          /\ \E e \in Accepted :
                /\ entries[e].tx.amount >= 1
                /\ entries[e].tx.from \in Range(balanceList[w])
                /\ entries[entries[e].tx.from].amount = 1

\* ---- initAccount
\* a key gives an entry: it is not empty, its shard has a client and its
\* balance is positive
Qualifies(key) == key.hex # "" /\ key.client /\ key.balance > 0

\* the entries of the qualifying keys among the first n, in key order
RECURSIVE Pool(_)
Pool(n) ==
    IF n = 0 THEN <<>>
    ELSE IF Qualifies(keyList[n])
         THEN Append(Pool(n - 1), [key    |-> n,
                                   amount |-> keyList[n].balance,
                                   nonce  |-> getNonce(n)])
         ELSE Pool(n - 1)

\* C19 -- While initAccount runs, every index of the key list is in the
\* slice of exactly one goroutine; when initAccount has returned, every
\* initBalance goroutine has gone through its slice and has returned, and
\* the result holds, in key order, one entry with the balance and the nonce
\* of its account for every key that is not empty, whose shard has a client
\* and whose balance is positive, and nothing else.
C19_InitAccountPool ==
    /\ initPc \in {"loop", "wait"} =>
          \A k \in 0..(Len(keyList) - 1) :
              Cardinality({t \in 0..(threads - 1) :
                              SliceStart(t) <= k /\ k < SliceEnd(t)}) = 1
    /\ (initPc = "returned" /\ keyList # <<>>) =>
          /\ started = threads
          /\ done = 0..(threads - 1)
          /\ \A t \in 0..(threads - 1) : taskAt[t] = SliceEnd(t)
          /\ initResult = Pool(Len(keyList))

\* initAccount has returned a pool that has an entry but not for every key,
\* from slices of different lengths
C19_Witness ==
    /\ initPc = "returned"
    /\ threads = 2
    /\ Len(keyList) = 3
    /\ Len(initResult) = 2
    /\ \E k \in 1..3 : ~Qualifies(keyList[k])

=============================================================================
